---- MODULE Spec2Model ----
(***************************************************************************)
(* Replay Buffer Pro: the segment-save protocol of ReplayBufferManager and *)
(* Plugin::handleReplayBufferSaved, and the trim job each completed        *)
(* segment save starts (ReplayBufferManager::trimReplayBuffer running      *)
(* VideoTrimmer::trimToLastSeconds on a detached thread).                  *)
(*                                                                         *)
(* Spec delivers every "replay buffer saved" event on the thread that also *)
(* serves the user's requests, so a handler runs to completion.            *)
(* SpecThreads delivers the events on host threads of their own; there the *)
(* handler's read and its clear of pendingSaveDuration are separate steps  *)
(* that interleave with each other and with the requests.                  *)
(*                                                                         *)
(* SpecTrim is one call of VideoTrimmer::trimToLastSeconds followed packet *)
(* by packet, SpecDuration the start of such a call for every state of the *)
(* input's duration fields, SpecPath one call of getTrimmedOutputPath, and *)
(* SpecButtons a SaveButtonSettings object under setDurations and load.    *)
(***************************************************************************)
EXTENDS Integers, Sequences, FiniteSets, TLC

\* ------------------------------------------------------------------ bounds
MaxDuration == 2
MaxBufferLength == 2
MaxSaves == 2
NumHostThreads == 2

Durations == 1..MaxDuration
BufferLengths == 1..MaxBufferLength
HostThreads == 1..NumHostThreads

\* ------------------------------------------------------------------- state
VARIABLES
  active,               \* obs_frontend_replay_buffer_active()
  bufferLength,         \* RecRBTime of the profile, SettingsManager::getCurrentBufferLength()
  pendingSaveDuration,  \* ReplayBufferManager::pendingSaveDuration
  armedLength,          \* history: the buffer length read by the request that armed the
                        \* slot, 0 while the slot is not armed
  saves,                \* one record per obs_frontend_replay_buffer_save() call, in call order
  completed,            \* number of those saves the host has finished and announced
  mark,                 \* history: Len(saves) when the latest save was announced
  lastReplay,           \* what obs_frontend_get_last_replay() has to return
  files,                \* the file system: path -> what the file holds
  jobs,                 \* the detached trim threads, in dispatch order
  hpc, hdur,            \* per host thread: position in handleReplayBufferSaved, its local
                        \* `duration`
  last                  \* history: the request or the whole handler run the latest step
                        \* was, with what it returned; NoCall after any other step

\* One run of VideoTrimmer::trimToLastSeconds, packet by packet (SpecTrim).
VARIABLES
  source,               \* the input file as libavformat presents it: its streams and,
                        \* in file order, its packets
  durationSeconds,      \* the argument of trimToLastSeconds
  run,                  \* the locals of trimToLastSeconds and where the run stands
  sink                  \* what the output context has been given, in call order

pluginVars == <<active, bufferLength, pendingSaveDuration, armedLength, saves, completed,
                mark, lastReplay, files, jobs, hpc, hdur, last>>
\* One call of ReplayBufferManager::getTrimmedOutputPath (SpecPath).
VARIABLES
  givenPath,            \* the argument
  outputPath            \* what the call returned, NoPath before it

\* A SaveButtonSettings object (SpecButtons).
VARIABLES
  pool,                 \* the values the callers and the settings file draw from
  durations,            \* SaveButtonSettings::durations
  given                 \* history: how many values the latest setDurations or load
                        \* was handed, -1 if none

trimmerVars == <<source, durationSeconds, run, sink>>
pathVars == <<givenPath, outputPath>>
buttonVars == <<pool, durations, given>>
unitVars == <<trimmerVars, pathVars, buttonVars>>

vars == <<pluginVars, unitVars>>

NoPath == <<>>          \* a null path
Suffix == <<"_", "t", "r", "i", "m", "m", "e", "d">>

\* The path the host gives its k-th replay file.
HostPath(k) == <<"r", ToString(k), ".", "m">>

Call(op, arg, ret, queried) == [op |-> op, arg |-> arg, ret |-> ret, queried |-> queried]
NoCall == Call("none", 0, FALSE, FALSE)

\* ------------------------------------------------- ReplayBufferManager

\* std::string::find_last_of('.'): the last index holding '.', 0 for npos.
FindLastDot(path) ==
  LET dots == {i \in 1..Len(path) : path[i] = "."}
  IN IF dots = {} THEN 0 ELSE CHOOSE i \in dots : \A k \in dots : k <= i

getTrimmedOutputPath(sourcePath) ==
  LET dot == FindLastDot(sourcePath)
  IN IF dot # 0
       THEN SubSeq(sourcePath, 1, dot - 1) \o Suffix \o SubSeq(sourcePath, dot, Len(sourcePath))
       ELSE sourcePath \o Suffix

getPendingSaveDuration == pendingSaveDuration

\* pendingSaveDuration = 0; the history of the arming goes with it.
clearPendingSaveDuration == pendingSaveDuration' = 0 /\ armedLength' = 0

SegmentSave(duration) == [kind |-> "segment", duration |-> duration]
FullSave == [kind |-> "full", duration |-> 0]

\* obs_frontend_replay_buffer_save(): the host starts one more asynchronous save.
obs_frontend_replay_buffer_save(request) == saves' = Append(saves, request)

\* saveSegment as it would be if a request made while the slot is armed left
\* the armed duration in place.
saveSegment_keepsFirst(duration) ==
  /\ Len(saves) < MaxSaves
  /\ IF ~active \/ duration > bufferLength
       THEN /\ last' = Call("saveSegment", duration, FALSE, FALSE)
            /\ UNCHANGED <<pendingSaveDuration, armedLength, saves>>
       ELSE /\ pendingSaveDuration' =
                 IF pendingSaveDuration > 0 THEN pendingSaveDuration ELSE duration
            /\ armedLength' = IF pendingSaveDuration > 0 THEN armedLength ELSE bufferLength
            /\ obs_frontend_replay_buffer_save(SegmentSave(duration))
            /\ last' = Call("saveSegment", duration, TRUE, FALSE)
  /\ UNCHANGED <<active, bufferLength, completed, mark, lastReplay, files, jobs, hpc, hdur>>
  /\ UNCHANGED unitVars

\* saveSegment as it would be without the test of obs_frontend_replay_buffer_active().
saveSegment_noActiveCheck(duration) ==
  /\ Len(saves) < MaxSaves
  /\ IF duration > bufferLength
       THEN /\ last' = Call("saveSegment", duration, FALSE, FALSE)
            /\ UNCHANGED <<pendingSaveDuration, armedLength, saves>>
       ELSE /\ pendingSaveDuration' = duration
            /\ armedLength' = bufferLength
            /\ obs_frontend_replay_buffer_save(SegmentSave(duration))
            /\ last' = Call("saveSegment", duration, TRUE, FALSE)
  /\ UNCHANGED <<active, bufferLength, completed, mark, lastReplay, files, jobs, hpc, hdur>>
  /\ UNCHANGED unitVars

\* saveSegment as it would be if it stored the duration before it validated it.
saveSegment_armsBeforeCheck(duration) ==
  /\ Len(saves) < MaxSaves
  /\ pendingSaveDuration' = duration
  /\ armedLength' = bufferLength
  /\ IF ~active \/ duration > bufferLength
       THEN /\ last' = Call("saveSegment", duration, FALSE, FALSE)
            /\ UNCHANGED saves
       ELSE /\ obs_frontend_replay_buffer_save(SegmentSave(duration))
            /\ last' = Call("saveSegment", duration, TRUE, FALSE)
  /\ UNCHANGED <<active, bufferLength, completed, mark, lastReplay, files, jobs, hpc, hdur>>
  /\ UNCHANGED unitVars

\* saveSegment as it would be without the comparison with the buffer length.
saveSegment_noLengthCheck(duration) ==
  /\ Len(saves) < MaxSaves
  /\ IF ~active
       THEN /\ last' = Call("saveSegment", duration, FALSE, FALSE)
            /\ UNCHANGED <<pendingSaveDuration, armedLength, saves>>
       ELSE /\ pendingSaveDuration' = duration
            /\ armedLength' = bufferLength
            /\ obs_frontend_replay_buffer_save(SegmentSave(duration))
            /\ last' = Call("saveSegment", duration, TRUE, FALSE)
  /\ UNCHANGED <<active, bufferLength, completed, mark, lastReplay, files, jobs, hpc, hdur>>
  /\ UNCHANGED unitVars

saveSegment(duration) ==
  /\ Len(saves) < MaxSaves
  /\ IF ~active
       THEN /\ last' = Call("saveSegment", duration, FALSE, FALSE)
            /\ UNCHANGED <<pendingSaveDuration, armedLength, saves>>
       ELSE LET currentBufferLength == bufferLength
            IN IF duration > currentBufferLength
                 THEN /\ last' = Call("saveSegment", duration, FALSE, FALSE)
                      /\ UNCHANGED <<pendingSaveDuration, armedLength, saves>>
                 ELSE /\ pendingSaveDuration' = duration
                      /\ armedLength' = currentBufferLength
                      /\ obs_frontend_replay_buffer_save(SegmentSave(duration))
                      /\ last' = Call("saveSegment", duration, TRUE, FALSE)
  /\ UNCHANGED <<active, bufferLength, completed, mark, lastReplay, files, jobs, hpc, hdur>>
  /\ UNCHANGED unitVars

\* saveFullBuffer as it would be if it reset the pending duration.
saveFullBuffer_clearsSlot ==
  /\ Len(saves) < MaxSaves
  /\ clearPendingSaveDuration
  /\ IF active
       THEN /\ obs_frontend_replay_buffer_save(FullSave)
            /\ last' = Call("saveFullBuffer", 0, TRUE, FALSE)
       ELSE /\ last' = Call("saveFullBuffer", 0, FALSE, FALSE)
            /\ UNCHANGED saves
  /\ UNCHANGED <<active, bufferLength, completed, mark,
                 lastReplay, files, jobs, hpc, hdur>>
  /\ UNCHANGED unitVars

saveFullBuffer ==
  /\ Len(saves) < MaxSaves
  /\ IF active
       THEN /\ obs_frontend_replay_buffer_save(FullSave)
            /\ last' = Call("saveFullBuffer", 0, TRUE, FALSE)
       ELSE /\ last' = Call("saveFullBuffer", 0, FALSE, FALSE)
            /\ UNCHANGED saves
  /\ UNCHANGED <<active, bufferLength, pendingSaveDuration, armedLength, completed, mark,
                 lastReplay, files, jobs, hpc, hdur>>
  /\ UNCHANGED unitVars

\* ------------------------------------------------------------ the host

\* The replay buffer is started or stopped.
SetActive ==
  /\ active' = ~active
  /\ last' = NoCall
  /\ UNCHANGED <<bufferLength, pendingSaveDuration, armedLength, saves, completed, mark,
                 lastReplay, files, jobs, hpc, hdur>>
  /\ UNCHANGED unitVars

\* The profile's buffer length is changed.
SetBufferLength(len) ==
  /\ len # bufferLength
  /\ bufferLength' = len
  /\ last' = NoCall
  /\ UNCHANGED <<active, pendingSaveDuration, armedLength, saves, completed, mark,
                 lastReplay, files, jobs, hpc, hdur>>
  /\ UNCHANGED unitVars

\* The host finishes its oldest unfinished save: the file is on disk and is
\* the last replay from now on.
HostFinishesSave ==
  /\ completed < Len(saves)
  /\ completed' = completed + 1
  /\ mark' = Len(saves)
  /\ lastReplay' = HostPath(completed + 1)
  /\ files' = (HostPath(completed + 1) :> "replay") @@ files

\* ---------------------------------------------------------------- Plugin

TrimJob(path, duration) ==
  [path |-> path, duration |-> duration, pc |-> "open", result |-> "running",
   alert |-> FALSE]

\* The buffer obs_frontend_get_last_replay() hands to its caller: the
\* path's characters in memory of the host's allocator, the caller's to free.
HostBuffer(path) == [chars |-> path, freed |-> FALSE]

\* bfree((void *)savedPath)
bfree(buffer) == [buffer EXCEPT !.freed = TRUE]

\* What the characters of a freed buffer read as.
Garbage == <<"?">>

\* std::string pathCopy(savedPath): the characters, as they are in memory
\* when the copy is made.
StdString(buffer) == IF buffer.freed THEN Garbage ELSE buffer.chars

\* The dispatch as it would be if the handler ran the job to its end
\* before going on, a job whose input cannot be opened.
Dispatch_joins(path, duration) ==
  jobs' = Append(jobs, [TrimJob(path, duration) EXCEPT
                          !.pc = "done", !.result = "failure", !.alert = TRUE])

\* std::thread([...]{ manager->trimReplayBuffer(path.c_str(), duration); }).detach()
Dispatch(path, duration) == jobs' = Append(jobs, TrimJob(path, duration))

\* handleReplayBufferSaved as it would be if the slot were cleared only once a
\* path has been obtained.
handleReplayBufferSaved_clearsAfterPath(savedPath) ==
  /\ HostFinishesSave
  /\ LET duration == getPendingSaveDuration
     IN IF duration > 0
          THEN /\ IF savedPath # NoPath
                    THEN /\ clearPendingSaveDuration
                         /\ Dispatch(StdString(HostBuffer(savedPath)), duration)
                    ELSE UNCHANGED <<pendingSaveDuration, armedLength, jobs>>
               /\ last' = Call("handleReplayBufferSaved", duration, savedPath # NoPath, TRUE)
          ELSE /\ UNCHANGED <<pendingSaveDuration, armedLength, jobs>>
               /\ last' = Call("handleReplayBufferSaved", duration, FALSE, FALSE)
  /\ UNCHANGED <<active, bufferLength, saves, hpc, hdur>>
  /\ UNCHANGED unitVars

\* handleReplayBufferSaved as it would be if the host's buffer were freed
\* before the path is copied out of it.
handleReplayBufferSaved_freesBeforeCopy(savedPath) ==
  /\ HostFinishesSave
  /\ LET duration == getPendingSaveDuration
     IN IF duration > 0
          THEN /\ clearPendingSaveDuration
               /\ IF savedPath # NoPath
                    THEN LET pathCopy == StdString(bfree(HostBuffer(savedPath)))
                         IN Dispatch(pathCopy, duration)
                    ELSE UNCHANGED jobs
               /\ last' = Call("handleReplayBufferSaved", duration, savedPath # NoPath, TRUE)
          ELSE /\ UNCHANGED <<pendingSaveDuration, armedLength, jobs>>
               /\ last' = Call("handleReplayBufferSaved", duration, FALSE, FALSE)
  /\ UNCHANGED <<active, bufferLength, saves, hpc, hdur>>
  /\ UNCHANGED unitVars

\* OBS_FRONTEND_EVENT_REPLAY_BUFFER_SAVED handled on the requests' thread:
\* handleReplayBufferSaved from its first line to its last.  The path is
\* copied out of the host's buffer, the buffer is freed and is not used
\* again, and the thread is given the copy.
handleReplayBufferSaved(savedPath) ==
  /\ HostFinishesSave
  /\ LET duration == getPendingSaveDuration
     IN IF duration > 0
          THEN /\ clearPendingSaveDuration
               /\ IF savedPath # NoPath
                    THEN LET pathCopy == StdString(HostBuffer(savedPath))
                         IN Dispatch(pathCopy, duration)
                    ELSE UNCHANGED jobs
               /\ last' = Call("handleReplayBufferSaved", duration, savedPath # NoPath, TRUE)
          ELSE /\ UNCHANGED <<pendingSaveDuration, armedLength, jobs>>
               /\ last' = Call("handleReplayBufferSaved", duration, FALSE, FALSE)
  /\ UNCHANGED <<active, bufferLength, saves, hpc, hdur>>
  /\ UNCHANGED unitVars

ReplayBufferSaved ==
  \E savedPath \in {NoPath, HostPath(completed + 1)} : handleReplayBufferSaved(savedPath)

\* ------------------------------------- the handler on host threads
\* The host announces a finished save on one of its own threads, which
\* enters handleReplayBufferSaved.  The threads are interchangeable: the
\* event goes to the first one that is not inside the handler.
HostRaisesSaved(h) ==
  /\ hpc[h] = "idle"
  /\ \A g \in 1..(h - 1) : hpc[g] # "idle"
  /\ HostFinishesSave
  /\ hpc' = [hpc EXCEPT ![h] = "read"]
  /\ last' = NoCall
  /\ UNCHANGED <<active, bufferLength, pendingSaveDuration, armedLength, saves, jobs, hdur>>
  /\ UNCHANGED unitVars

\* int duration = replayManager->getPendingSaveDuration(); if (duration > 0) {
handlerRead(h) ==
  /\ hpc[h] = "read"
  /\ hdur' = [hdur EXCEPT ![h] = getPendingSaveDuration]
  /\ hpc' = [hpc EXCEPT ![h] = IF getPendingSaveDuration > 0 THEN "clear" ELSE "idle"]
  /\ last' = NoCall
  /\ UNCHANGED <<active, bufferLength, pendingSaveDuration, armedLength, saves, completed,
                 mark, lastReplay, files, jobs>>
  /\ UNCHANGED unitVars

\* replayManager->clearPendingSaveDuration();
handlerClear(h) ==
  /\ hpc[h] = "clear"
  /\ clearPendingSaveDuration
  /\ hpc' = [hpc EXCEPT ![h] = "path"]
  /\ last' = NoCall
  /\ UNCHANGED <<active, bufferLength, saves, completed, mark, lastReplay,
                 files, jobs, hdur>>
  /\ UNCHANGED unitVars

\* obs_frontend_get_last_replay(), the copy of the path, and the thread.
handlerDispatch(h, savedPath) ==
  /\ hpc[h] = "path"
  /\ IF savedPath # NoPath
       THEN Dispatch(StdString(HostBuffer(savedPath)), hdur[h])
       ELSE UNCHANGED jobs
  /\ hpc' = [hpc EXCEPT ![h] = "idle"]
  /\ hdur' = [hdur EXCEPT ![h] = 0]
  /\ last' = NoCall
  /\ UNCHANGED <<active, bufferLength, pendingSaveDuration, armedLength, saves, completed,
                 mark, lastReplay, files>>
  /\ UNCHANGED unitVars

\* ------------------------------------------------------- a trim job's run
\* A job is trimReplayBuffer(path, duration) on its own thread.  Its steps
\* are the points where trimToLastSeconds touches the file system or can
\* fail; `failure` names the call that fails in this step, "none" if none.

Remove(fs, path) == [p \in DOMAIN fs \ {path} |-> fs[p]]

Running(j) == j \in 1..Len(jobs) /\ jobs[j].result = "running"

\* The failure path as it would be if the source were deleted whatever the
\* trim returned.
trimReplayBufferFailed_unlinks(fs, job) == Remove(fs, job.path)

\* trimToLastSeconds returned false (an early return, or the cleanup label:
\* both contexts are closed, the output file is left as it is), so
\* trimReplayBuffer throws and its catch logs and shows the message box.
trimReplayBufferFailed(fs, job) == fs

JobFails(j) ==
  /\ jobs' = [jobs EXCEPT ![j].pc = "done", ![j].result = "failure", ![j].alert = TRUE]
  /\ files' = trimReplayBufferFailed(files, jobs[j])
  /\ last' = NoCall

JobFrame == UNCHANGED <<active, bufferLength, pendingSaveDuration, armedLength, saves,
                        completed, mark, lastReplay, hpc, hdur, unitVars>>

PreSinkFailures == {"avformat_open_input", "avformat_find_stream_info", "getVideoDuration",
                    "avformat_alloc_output_context2", "setupOutputStreams", "avio_open"}

\* Open the input, probe it, find its duration, set up the output context
\* and its streams, and create the output file.  An input that is no longer
\* there cannot be opened.
trimOpen(j, failure) ==
  /\ Running(j) /\ jobs[j].pc = "open"
  /\ IF failure # "none" \/ jobs[j].path \notin DOMAIN files
       THEN JobFails(j)
       ELSE /\ files' = (getTrimmedOutputPath(jobs[j].path) :> "partial") @@ files
            /\ jobs' = [jobs EXCEPT ![j].pc = "header"]
            /\ last' = NoCall
  /\ JobFrame

trimWriteHeader(j, failure) ==
  /\ Running(j) /\ jobs[j].pc = "header"
  /\ IF failure # "none"
       THEN JobFails(j)
       ELSE /\ jobs' = [jobs EXCEPT ![j].pc = "packets"]
            /\ last' = NoCall
            /\ UNCHANGED files
  /\ JobFrame

\* The keyframe scan and the copy loop, up to the loop's end or to the
\* first packet the muxer refuses.
trimCopyPackets(j, failure) ==
  /\ Running(j) /\ jobs[j].pc = "packets"
  /\ IF failure # "none"
       THEN JobFails(j)
       ELSE /\ jobs' = [jobs EXCEPT ![j].pc = "trailer"]
            /\ last' = NoCall
            /\ UNCHANGED files
  /\ JobFrame

\* The trailer; when it is written trimToLastSeconds closes both files and
\* returns true.
trimWriteTrailer(j, failure) ==
  /\ Running(j) /\ jobs[j].pc = "trailer"
  /\ IF failure # "none"
       THEN JobFails(j)
       ELSE /\ files' = (getTrimmedOutputPath(jobs[j].path) :> "trimmed") @@ files
            /\ jobs' = [jobs EXCEPT ![j].pc = "unlink"]
            /\ last' = NoCall
  /\ JobFrame

\* The success path as it would be without the os_unlink.
trimReplayBufferUnlink_keepsSource(j) ==
  /\ Running(j) /\ jobs[j].pc = "unlink"
  /\ jobs' = [jobs EXCEPT ![j].pc = "done", ![j].result = "success"]
  /\ last' = NoCall
  /\ UNCHANGED files
  /\ JobFrame

\* trimReplayBuffer after a successful trim: os_unlink(sourcePath).
trimReplayBufferUnlink(j) ==
  /\ Running(j) /\ jobs[j].pc = "unlink"
  /\ files' = Remove(files, jobs[j].path)
  /\ jobs' = [jobs EXCEPT ![j].pc = "done", ![j].result = "success"]
  /\ last' = NoCall
  /\ JobFrame

Jobs == 1..MaxSaves

TrimOpen == \E j \in Jobs : \E failure \in PreSinkFailures \cup {"none"} : trimOpen(j, failure)
TrimWriteHeader ==
  \E j \in Jobs : \E failure \in {"avformat_write_header", "none"} : trimWriteHeader(j, failure)
TrimCopyPackets ==
  \E j \in Jobs : \E failure \in {"av_interleaved_write_frame", "none"} : trimCopyPackets(j, failure)
TrimWriteTrailer ==
  \E j \in Jobs : \E failure \in {"av_write_trailer", "none"} : trimWriteTrailer(j, failure)
TrimUnlink == \E j \in Jobs : trimReplayBufferUnlink(j)

SaveSegment == \E duration \in Durations : saveSegment(duration)
ChangeBufferLength == \E len \in BufferLengths : SetBufferLength(len)
RaiseSaved == \E h \in HostThreads : HostRaisesSaved(h)
HandlerRead == \E h \in HostThreads : handlerRead(h)
HandlerClear == \E h \in HostThreads : handlerClear(h)
HandlerDispatch ==
  \E h \in HostThreads : \E savedPath \in {NoPath, lastReplay} : handlerDispatch(h, savedPath)

\* ============================================================ VideoTrimmer
\* One call of trimToLastSeconds on one input file.  Timestamps count ticks
\* of a stream's time base; a time base is 1/rate seconds and is written as
\* its rate.  A time in seconds is a fraction <<numerator, denominator>>.

MaxPackets == 2
MaxPts == 2

AV_NOPTS_VALUE == -(2^20)

Streams == {0, 1}
Stamps == 0..MaxPts
Rates == {1, 2}

\* The time bases of the input's streams: all alike, or the second finer.
TimeBases == {[s \in Streams |-> 1], [s \in Streams |-> s + 1]}

\* codec_type of each stream of a file: one stream of either kind, or a
\* video and an audio stream in either order.  "none": the file has no such
\* stream.
Layouts ==
  {(0 :> "video" @@ 1 :> "none"), (0 :> "audio" @@ 1 :> "none"),
   (0 :> "video" @@ 1 :> "audio"), (0 :> "audio" @@ 1 :> "video")}

\* What av_read_frame can return.  Every packet has a dts, and one that has
\* a pts has a dts equal to it.
Packet ==
  {pkt \in [stream_index : Streams, pts : Stamps \cup {AV_NOPTS_VALUE},
            dts : Stamps, key : BOOLEAN] :
     pkt.pts # AV_NOPTS_VALUE => pkt.dts = pkt.pts}

PacketSeqs == UNION {[1..n -> Packet] : n \in 0..MaxPackets}

Seconds(n) == <<n, 1>>
Less(a, b) == a[1] * b[2] < b[1] * a[2]
LessEq(a, b) == a[1] * b[2] <= b[1] * a[2]

\* pts * av_q2d(time_base)
InSeconds(stamp, rate) == <<stamp, rate>>

\* av_rescale_q(a, 1/from, 1/to): a * to / from, rounded to the nearest
\* integer, halves away from zero.
av_rescale_q(a, from, to) ==
  IF a >= 0
    THEN (2 * a * to + from) \div (2 * from)
    ELSE 0 - ((2 * (0 - a) * to + from) \div (2 * from))

\* The packet's own timestamp: its pts, else its dts, else none.
StampOf(pkt) == IF pkt.pts # AV_NOPTS_VALUE THEN pkt.pts ELSE pkt.dts

\* inputCtx->duration in whole seconds: the end of the latest packet, each
\* packet lasting one tick; 0 when no packet has a timestamp.
ContainerDuration(time_base, packets) ==
  LET ends == {(StampOf(packets[i]) + time_base[packets[i].stream_index])
                  \div time_base[packets[i].stream_index] :
               i \in {k \in 1..Len(packets) : StampOf(packets[k]) # AV_NOPTS_VALUE}}
  IN IF ends = {} THEN 0 ELSE CHOOSE e \in ends : \A f \in ends : f <= e

\* A file a recording leaves: every stream has packets, every audio packet
\* is flagged as a key packet, and a video stream starts with a key packet,
\* unless none of its packets is flagged.
WellFormed(codec_type, packets) ==
  /\ \A s \in Streams :
       codec_type[s] # "none" <=> \E i \in 1..Len(packets) : packets[i].stream_index = s
  /\ \A i \in 1..Len(packets) :
       LET s == packets[i].stream_index
       IN /\ codec_type[s] = "audio" => packets[i].key
          /\ (\A k \in 1..(i - 1) : packets[k].stream_index # s)
               => \/ packets[i].key
                  \/ \A k \in 1..Len(packets) :
                       packets[k].stream_index = s => ~packets[k].key

\* stream->duration in ticks of the stream's time base: the end of the
\* stream's latest packet, rounded up to a whole second; unset when the
\* stream has no packet.
StreamDuration(time_base, packets, s) ==
  LET own == SelectSeq(packets, LAMBDA pkt : pkt.stream_index = s)
  IN IF own = <<>> THEN AV_NOPTS_VALUE
     ELSE ContainerDuration(time_base, own) * time_base[s]

\* What the demuxer knows of the durations after avformat_find_stream_info:
\* the container's and the streams', the streams' only, or none.
Known == {"container", "streams", "none"}

NoSource ==
  [codec_type |-> <<>>, time_base |-> <<>>, packets |-> <<>>, duration |-> 0,
   stream_duration |-> <<>>]
NoRun == [pc |-> "idle"]

\* The locals of trimToLastSeconds as they are declared, before the input
\* is opened.  A context is "null" until it is opened, then "open", then
\* "closed" (the output context: "freed") once it has been released.
\* `failed` names the call that ended the run and `seenKey` tells whether
\* the scan has come upon a key packet; the code keeps neither.
Entered ==
  [pc |-> "open", result |-> "none", failed |-> "none",
   inputCtx |-> "null", outputCtx |-> "null", pb |-> "null",
   totalDuration |-> -1, startTime |-> 0, videoStreamIndex |-> -1,
   keyframeTime |-> AV_NOPTS_VALUE, effectiveStartTime |-> Seconds(0),
   seenKey |-> FALSE, position |-> 1, floor |-> Seconds(0),
   firstPtsPerStream |-> [s \in Streams |-> AV_NOPTS_VALUE],
   time_base |-> [s \in Streams |-> 1]]

Max(a, b) == IF a >= b THEN a ELSE b

\* `return false` after the call `failure` has failed, from the locals r.
Failed(r, failure) == [r EXCEPT !.pc = "returned", !.result = "false", !.failed = failure]

\* avformat_close_input(&inputCtx)
CloseInput(r) == [r EXCEPT !.inputCtx = "closed"]

\* Lines 291-295 and 300-309: both contexts and the output file are
\* released, where they exist.
Cleanup(r) ==
  [r EXCEPT !.inputCtx = IF @ = "open" THEN "closed" ELSE @,
            !.pb = IF @ = "open" THEN "closed" ELSE @,
            !.outputCtx = IF @ = "open" THEN "freed" ELSE @]

\* Lines 72-84: the container's duration when it is known, else the longest
\* of the streams' known durations, -1 when none is known.  In seconds; the
\* streams' durations are whole seconds.
TotalDuration_firstStream(src) ==
  IF src.duration # AV_NOPTS_VALUE
    THEN src.duration
    ELSE LET known == {s \in Streams : /\ src.codec_type[s] # "none"
                                       /\ src.stream_duration[s] # AV_NOPTS_VALUE}
         IN IF known = {} THEN -1
            ELSE LET s == CHOOSE t \in known : \A u \in known : t <= u
                 IN src.stream_duration[s] \div src.time_base[s]

TotalDuration(src) ==
  IF src.duration # AV_NOPTS_VALUE
    THEN src.duration
    ELSE LET known == {s \in Streams : /\ src.codec_type[s] # "none"
                                       /\ src.stream_duration[s] # AV_NOPTS_VALUE}
             seconds == {src.stream_duration[s] \div src.time_base[s] : s \in known}
                          \cup {-1}
         IN CHOOSE d \in seconds : \A e \in seconds : e <= d

\* Lines 328-368, called with the open context: the same reading, from 0.
getVideoDuration(src) == Max(0, TotalDuration(src))

\* Lines 56-127: open and probe the input, find its duration, compute the
\* start time, allocate the output context, add its streams, open the file.
openInput(failure) ==
  /\ run.pc = "open"
  /\ LET inline == TotalDuration(source)
         totalDuration == IF inline <= 0 THEN getVideoDuration(source) ELSE inline
         opened == [run EXCEPT !.inputCtx = "open"]
         probed == [opened EXCEPT !.totalDuration = totalDuration]
         planned == [probed EXCEPT !.startTime = Max(0, totalDuration - durationSeconds)]
         allocated == [planned EXCEPT !.outputCtx = "open"]
     IN run' =
          IF failure = "avformat_open_input" THEN Failed(run, failure)
          ELSE IF failure = "avformat_find_stream_info"
            THEN Failed(CloseInput(opened), failure)
          ELSE IF totalDuration <= 0 THEN Failed(CloseInput(probed), "getVideoDuration")
          ELSE IF failure = "avformat_alloc_output_context2"
            THEN Failed(CloseInput(planned), failure)
          ELSE IF failure \in {"setupOutputStreams", "avio_open"}
            THEN Failed(Cleanup(allocated), failure)
          ELSE [allocated EXCEPT !.pb = "open", !.pc = "header"]
  /\ UNCHANGED <<source, durationSeconds, sink, pluginVars, pathVars, buttonVars>>

\* Lines 130-134: avformat_write_header; the muxer settles the time base of
\* every output stream.
writeHeader(failure, time_base) ==
  /\ run.pc = "header"
  /\ IF failure # "none"
       THEN run' = Failed(Cleanup(run), failure) /\ UNCHANGED sink
       ELSE /\ run' = [run EXCEPT !.pc = "scan", !.time_base = time_base]
            /\ sink' = Append(sink, [op |-> "header"])
  /\ UNCHANGED <<source, durationSeconds, pluginVars, pathVars, buttonVars>>

\* Lines 137-142: the first video stream, -1 when there is none.
FindVideoStream(codec_type) ==
  LET videos == {s \in Streams : codec_type[s] = "video"}
  IN IF videos = {} THEN -1 ELSE CHOOSE s \in videos : \A t \in videos : s <= t

\* av_seek_frame(ctx, -1, target, flags) works on the default stream: the
\* first video stream, else the first stream.
DefaultStream(src) ==
  IF FindVideoStream(src.codec_type) >= 0 THEN FindVideoStream(src.codec_type) ELSE 0

\* The time the demuxer's index files a packet under, when it has a timestamp.
TimeOf(src, i) == InSeconds(StampOf(src.packets[i]), src.time_base[src.packets[i].stream_index])

\* av_read_frame: the index of the next packet delivered, Len + 1 at the end
\* of the file.  After a seek the demuxer passes over the packets filed
\* before the time it landed on (`floor`).
NextRead(src, position, floor) ==
  LET ahead == {i \in position..Len(src.packets) :
                  \/ StampOf(src.packets[i]) = AV_NOPTS_VALUE
                  \/ LessEq(floor, TimeOf(src, i))}
  IN IF ahead = {} THEN Len(src.packets) + 1
     ELSE CHOOSE i \in ahead : \A k \in ahead : i <= k

\* AVSEEK_FLAG_BACKWARD: the seek lands on the default stream's latest key
\* packet at or before the target, on its earliest key packet when the
\* target lies before them all; 0 when the stream has no key packet and the
\* seek fails.
SeekBackward(src, target) ==
  LET keys == {i \in 1..Len(src.packets) :
                 /\ src.packets[i].stream_index = DefaultStream(src)
                 /\ src.packets[i].key
                 /\ StampOf(src.packets[i]) # AV_NOPTS_VALUE}
      found == {i \in keys : LessEq(TimeOf(src, i), target)}
  IN IF keys = {} THEN 0
     ELSE IF found = {}
            THEN CHOOSE i \in keys :
                   \A k \in keys : \/ Less(TimeOf(src, i), TimeOf(src, k))
                                   \/ (~Less(TimeOf(src, k), TimeOf(src, i)) /\ i <= k)
            ELSE CHOOSE i \in found :
                   \A k \in found : \/ Less(TimeOf(src, k), TimeOf(src, i))
                                    \/ (~Less(TimeOf(src, i), TimeOf(src, k)) /\ k <= i)

\* AVSEEK_FLAG_ANY: the seek lands on the default stream's earliest packet
\* at or after the target; 0 when there is none and the seek fails.
SeekAny(src, target) ==
  LET found == {i \in 1..Len(src.packets) :
                  /\ src.packets[i].stream_index = DefaultStream(src)
                  /\ StampOf(src.packets[i]) # AV_NOPTS_VALUE
                  /\ LessEq(target, TimeOf(src, i))}
  IN IF found = {} THEN 0
     ELSE CHOOSE i \in found :
            \A k \in found : \/ Less(TimeOf(src, i), TimeOf(src, k))
                             \/ (~Less(TimeOf(src, k), TimeOf(src, i)) /\ i <= k)

\* The reader after av_seek_frame: every stream restarts at the time of the
\* packet the seek landed on; a failed seek leaves the reader where it was.
After(src, seek, reader) ==
  IF seek # 0
    THEN [position |-> NextRead(src, 1, TimeOf(src, seek)), floor |-> TimeOf(src, seek)]
    ELSE reader

\* Lines 159-181: the scan loop from `position` on.  `state` holds
\* keyframeTime, effectiveStartTime, the read position, and whether a key
\* packet has been seen.
RECURSIVE ScanFrom(_, _, _, _)
ScanFrom(src, videoStreamIndex, startTime, state) ==
  IF state.position > Len(src.packets)
    THEN state
    ELSE
      LET searchPacket == src.packets[state.position]
          packetTime == IF searchPacket.pts # AV_NOPTS_VALUE
                          THEN InSeconds(searchPacket.pts, src.time_base[videoStreamIndex])
                          ELSE Seconds(0)
          read == [state EXCEPT
                     !.position = NextRead(src, state.position + 1, state.floor)]
          seen == IF searchPacket.key
                    THEN [read EXCEPT !.keyframeTime = searchPacket.pts,
                                      !.effectiveStartTime = packetTime,
                                      !.seenKey = TRUE]
                    ELSE read
      IN IF searchPacket.stream_index # videoStreamIndex
           THEN ScanFrom(src, videoStreamIndex, startTime, read)
           ELSE IF Less(Seconds(startTime), packetTime)
                  THEN seen
                  ELSE ScanFrom(src, videoStreamIndex, startTime, seen)

\* Lines 184-199: the seek that follows the scan.
Reseek(src, videoStreamIndex, startTime, state) ==
  LET reader == [position |-> state.position, floor |-> state.floor]
  IN IF state.keyframeTime # AV_NOPTS_VALUE
       THEN LET keyframeSeekTarget ==
                  InSeconds(state.keyframeTime, src.time_base[videoStreamIndex])
                exact == SeekAny(src, keyframeSeekTarget)
            IN IF exact # 0
                 THEN After(src, exact, reader)
                 ELSE After(src, SeekBackward(src, keyframeSeekTarget), reader)
       ELSE After(src, SeekBackward(src, Seconds(startTime)), reader)

\* The same as it would be without line 156, the anchor keeping the value
\* it was declared with until a key packet is seen.
findKeyframe_noFallback(failure) ==
  /\ run.pc = "scan"
  /\ LET videoStreamIndex == FindVideoStream(source.codec_type)
         sought == After(source, SeekBackward(source, Seconds(run.startTime)),
                         [position |-> NextRead(source, run.position, run.floor),
                          floor |-> run.floor])
         before == [keyframeTime |-> run.keyframeTime,
                    effectiveStartTime |-> run.effectiveStartTime,
                    seenKey |-> FALSE,
                    position |-> sought.position, floor |-> sought.floor]
         after == IF videoStreamIndex >= 0
                    THEN ScanFrom(source, videoStreamIndex, run.startTime, before)
                    ELSE before
         reader == IF videoStreamIndex >= 0
                     THEN Reseek(source, videoStreamIndex, run.startTime, after)
                     ELSE sought
         found == [run EXCEPT !.videoStreamIndex = videoStreamIndex,
                                !.keyframeTime = after.keyframeTime,
                                !.effectiveStartTime = after.effectiveStartTime,
                                !.seenKey = after.seenKey,
                                !.position = reader.position,
                                !.floor = reader.floor]
     IN run' = IF failure = "av_packet_alloc" THEN Failed(Cleanup(found), failure)
               ELSE IF failure = "std::bad_alloc" THEN Failed(found, failure)
               ELSE [found EXCEPT !.pc = "copy"]
  /\ UNCHANGED <<source, durationSeconds, sink, pluginVars, pathVars, buttonVars>>

\* Lines 137-211: find the video stream, seek to the start time, scan for
\* the keyframe to cut at, seek to it, allocate the copy loop's packet and
\* its vector of offsets.  A packet that cannot be allocated leaves through
\* the cleanup label; a vector that cannot be allocated throws, and the
\* catch clause (312-315) returns false.
findKeyframe(failure) ==
  /\ run.pc = "scan"
  /\ LET videoStreamIndex == FindVideoStream(source.codec_type)
         sought == After(source, SeekBackward(source, Seconds(run.startTime)),
                         [position |-> NextRead(source, run.position, run.floor),
                          floor |-> run.floor])
         before == [keyframeTime |-> run.keyframeTime,
                    effectiveStartTime |-> Seconds(run.startTime),
                    seenKey |-> FALSE,
                    position |-> sought.position, floor |-> sought.floor]
         after == IF videoStreamIndex >= 0
                    THEN ScanFrom(source, videoStreamIndex, run.startTime, before)
                    ELSE before
         reader == IF videoStreamIndex >= 0
                     THEN Reseek(source, videoStreamIndex, run.startTime, after)
                     ELSE sought
         found == [run EXCEPT !.videoStreamIndex = videoStreamIndex,
                                !.keyframeTime = after.keyframeTime,
                                !.effectiveStartTime = after.effectiveStartTime,
                                !.seenKey = after.seenKey,
                                !.position = reader.position,
                                !.floor = reader.floor]
     IN run' = IF failure = "av_packet_alloc" THEN Failed(Cleanup(found), failure)
               ELSE IF failure = "std::bad_alloc" THEN Failed(found, failure)
               ELSE [found EXCEPT !.pc = "copy"]
  /\ UNCHANGED <<source, durationSeconds, sink, pluginVars, pathVars, buttonVars>>

\* The time compared as it would be if every packet were read in the first
\* stream's time base.
CopyTime_firstStream(src, packet) ==
  IF packet.pts # AV_NOPTS_VALUE
    THEN InSeconds(packet.pts, src.time_base[0])
    ELSE IF packet.dts # AV_NOPTS_VALUE
           THEN InSeconds(packet.dts, src.time_base[0])
           ELSE Seconds(0)

\* Lines 215-221: the time the copy loop compares.
CopyTime(src, packet) ==
  IF packet.pts # AV_NOPTS_VALUE
    THEN InSeconds(packet.pts, src.time_base[packet.stream_index])
    ELSE IF packet.dts # AV_NOPTS_VALUE
           THEN InSeconds(packet.dts, src.time_base[packet.stream_index])
           ELSE Seconds(0)

\* The offset as it would be if every retained packet set it anew.
FirstPts_everyPacket(streamFirstPts, packet, from, to) ==
  IF packet.pts # AV_NOPTS_VALUE
    THEN av_rescale_q(packet.pts, from, to)
    ELSE IF packet.dts # AV_NOPTS_VALUE
           THEN av_rescale_q(packet.dts, from, to)
           ELSE streamFirstPts

\* Lines 231-239: the stream's offset once this packet has been seen.
FirstPts(streamFirstPts, packet, from, to) ==
  IF streamFirstPts # AV_NOPTS_VALUE
    THEN streamFirstPts
    ELSE IF packet.pts # AV_NOPTS_VALUE
           THEN av_rescale_q(packet.pts, from, to)
           ELSE IF packet.dts # AV_NOPTS_VALUE
                  THEN av_rescale_q(packet.dts, from, to)
                  ELSE AV_NOPTS_VALUE

\* The rebasing as it would be if the offset were never subtracted.
Rebase_noOffset(stamp, streamFirstPts, from, to) ==
  IF stamp = AV_NOPTS_VALUE THEN AV_NOPTS_VALUE ELSE av_rescale_q(stamp, from, to)

\* Lines 249-261: a timestamp rescaled to the output time base and moved by
\* the stream's offset.
Rebase(stamp, streamFirstPts, from, to) ==
  IF stamp = AV_NOPTS_VALUE
    THEN AV_NOPTS_VALUE
    ELSE IF streamFirstPts # AV_NOPTS_VALUE
           THEN av_rescale_q(stamp, from, to) - streamFirstPts
           ELSE av_rescale_q(stamp, from, to)

\* Lines 209-279: one turn of the copy loop, from av_read_frame to
\* av_interleaved_write_frame.
copyPacket(failure) ==
  /\ run.pc = "copy"
  /\ run.position <= Len(source.packets)
  /\ LET packet == source.packets[run.position]
         streamIndex == packet.stream_index
         from == source.time_base[streamIndex]
         to == run.time_base[streamIndex]
         streamFirstPts == FirstPts(run.firstPtsPerStream[streamIndex], packet, from, to)
         next == NextRead(source, run.position + 1, run.floor)
     IN IF Less(CopyTime(source, packet), run.effectiveStartTime)
          THEN /\ run' = [run EXCEPT !.position = next]
               /\ UNCHANGED sink
          ELSE IF failure # "none"
                 THEN /\ run' = Failed(Cleanup([run EXCEPT
                                   !.position = next,
                                   !.firstPtsPerStream[streamIndex] = streamFirstPts]),
                                 failure)
                      /\ UNCHANGED sink
                 ELSE /\ run' = [run EXCEPT !.position = next,
                                   !.firstPtsPerStream[streamIndex] = streamFirstPts]
                      /\ sink' = Append(sink,
                                   [op |-> "packet", stream_index |-> streamIndex,
                                    pts |-> Rebase(packet.pts, streamFirstPts, from, to),
                                    dts |-> Rebase(packet.dts, streamFirstPts, from, to),
                                    index |-> run.position])
  /\ UNCHANGED <<source, durationSeconds, pluginVars, pathVars, buttonVars>>

\* The end of the run as it would be if the result of av_write_trailer were
\* not looked at.
writeTrailer_ignoresFailure(failure) ==
  /\ run.pc = "copy"
  /\ run.position > Len(source.packets)
  /\ run' = [Cleanup(run) EXCEPT !.pc = "returned", !.result = "true"]
  /\ IF failure # "none"
       THEN UNCHANGED sink
       ELSE sink' = Append(sink, [op |-> "trailer"])
  /\ UNCHANGED <<source, durationSeconds, pluginVars, pathVars, buttonVars>>

\* Lines 284-298: av_read_frame has no more packets; the trailer is written
\* and both files are closed.
writeTrailer(failure) ==
  /\ run.pc = "copy"
  /\ run.position > Len(source.packets)
  /\ IF failure # "none"
       THEN run' = Failed(Cleanup(run), failure) /\ UNCHANGED sink
       ELSE /\ run' = [Cleanup(run) EXCEPT !.pc = "returned", !.result = "true"]
            /\ sink' = Append(sink, [op |-> "trailer"])
  /\ UNCHANGED <<source, durationSeconds, pluginVars, pathVars, buttonVars>>

OpenInput ==
  \E failure \in (PreSinkFailures \ {"getVideoDuration"}) \cup {"none"} : openInput(failure)
WriteHeader ==
  \E failure \in {"avformat_write_header", "none"} :
    \E rate \in Rates : writeHeader(failure, [s \in Streams |-> rate])
FindKeyframe ==
  \E failure \in {"av_packet_alloc", "std::bad_alloc", "none"} : findKeyframe(failure)
CopyPacket == \E failure \in {"av_interleaved_write_frame", "none"} : copyPacket(failure)
WriteTrailer == \E failure \in {"av_write_trailer", "none"} : writeTrailer(failure)

\* ============================== ReplayBufferManager::getTrimmedOutputPath
MaxPathLen == 4

\* Paths are spelt with a letter, the dot and the directory separator; the
\* path of a file does not end with the separator.
PathChars == {"a", ".", "/"}
Paths == {path \in UNION {[1..n -> PathChars] : n \in 1..MaxPathLen} : path[Len(path)] # "/"}

trimmedOutputPath ==
  /\ outputPath = NoPath
  /\ outputPath' = getTrimmedOutputPath(givenPath)
  /\ UNCHANGED <<givenPath, pluginVars, trimmerVars, buttonVars>>

\* ====================================================== SaveButtonSettings
MaxValues == 8

MAX_BUFFER_LENGTH == 21600
SAVE_BUTTONS == <<15, 30, 60, 300, 600, 900, 1800>>
SAVE_BUTTON_COUNT == Len(SAVE_BUTTONS)

\* What a caller or a settings file may hold: a value below the range, one
\* inside it, one above it.
InputValues == {-3, 45, MAX_BUFFER_LENGTH + 1}

Min(a, b) == IF a <= b THEN a ELSE b

getDefaultDurations == [i \in 1..SAVE_BUTTON_COUNT |-> SAVE_BUTTONS[i]]

\* normalizeDurations as it would be without the upper limit.
normalizeDurations_noMax(input) ==
  [i \in 1..SAVE_BUTTON_COUNT |->
     IF i <= Min(Len(input), SAVE_BUTTON_COUNT)
       THEN Max(1, input[i])
       ELSE getDefaultDurations[i]]

normalizeDurations(input) ==
  [i \in 1..SAVE_BUTTON_COUNT |->
     IF i <= Min(Len(input), SAVE_BUTTON_COUNT)
       THEN Max(1, Min(input[i], MAX_BUFFER_LENGTH))
       ELSE getDefaultDurations[i]]

getDurations == durations

setDurations(values) ==
  /\ durations' = normalizeDurations(values)
  /\ given' = Len(values)
  /\ UNCHANGED <<pool, pluginVars, trimmerVars, pathVars>>

\* load(): `file` is what the settings file turns out to be; "array" is a
\* file whose array holds `loadedValues` (an item that is no number reads
\* as 0 and is limited like any value below the range).
load(file, loadedValues) ==
  /\ IF file \in {"no path", "no file", "no array"}
       THEN durations' = getDefaultDurations /\ given' = 0
       ELSE durations' = normalizeDurations(loadedValues) /\ given' = Len(loadedValues)
  /\ UNCHANGED <<pool, pluginVars, trimmerVars, pathVars>>

SetDurations == \E n \in 0..Len(pool) : setDurations(SubSeq(pool, 1, n))
Load ==
  \E file \in {"no path", "no file", "no array", "array"} :
    \E n \in 0..Len(pool) : load(file, SubSeq(pool, 1, n))

PathIdle == givenPath = NoPath /\ outputPath = NoPath
ButtonsIdle == pool = <<>> /\ durations = getDefaultDurations /\ given = -1

\* The plugin at rest, and no trim under way.
PluginIdle ==
  /\ active = FALSE
  /\ bufferLength = 1
  /\ pendingSaveDuration = 0
  /\ armedLength = 0
  /\ saves = <<>>
  /\ completed = 0
  /\ mark = 0
  /\ lastReplay = NoPath
  /\ files = <<>>
  /\ jobs = <<>>
  /\ hpc = [h \in HostThreads |-> "idle"]
  /\ hdur = [h \in HostThreads |-> 0]
  /\ last = NoCall

TrimmerIdle ==
  /\ source = NoSource
  /\ durationSeconds = 0
  /\ run = NoRun
  /\ sink = <<>>

\* The input file as the demuxer presents it, with what it knows of the
\* durations.
Source(codec_type, time_base, packets, known) ==
  [codec_type |-> codec_type, time_base |-> time_base, packets |-> packets,
   duration |-> IF known = "container"
                  THEN ContainerDuration(time_base, packets)
                  ELSE AV_NOPTS_VALUE,
   stream_duration |->
     [s \in Streams |->
        IF known = "none" THEN AV_NOPTS_VALUE
        ELSE StreamDuration(time_base, packets, s)]]

\* trimToLastSeconds is entered with some file, whose durations the demuxer
\* knows, and some duration.
InitTrim ==
  /\ PluginIdle
  /\ PathIdle
  /\ ButtonsIdle
  /\ \E codec_type \in Layouts, time_base \in TimeBases, packets \in PacketSeqs :
       /\ WellFormed(codec_type, packets)
       /\ source = Source(codec_type, time_base, packets, "container")
  /\ durationSeconds \in Durations
  /\ run = Entered
  /\ sink = <<>>

\* trimToLastSeconds is entered with some file, of whose durations the
\* demuxer knows all, the streams' only, or none.
InitDuration ==
  /\ PluginIdle
  /\ PathIdle
  /\ ButtonsIdle
  /\ \E codec_type \in Layouts, time_base \in TimeBases, packets \in PacketSeqs,
        known \in Known :
       /\ WellFormed(codec_type, packets)
       /\ source = Source(codec_type, time_base, packets, known)
  /\ durationSeconds \in Durations
  /\ run = Entered
  /\ sink = <<>>

\* getTrimmedOutputPath is about to be called with some path.
InitPath ==
  /\ PluginIdle
  /\ TrimmerIdle
  /\ ButtonsIdle
  /\ givenPath \in Paths
  /\ outputPath = NoPath

\* The object as its constructor leaves it.
InitButtons ==
  /\ PluginIdle
  /\ TrimmerIdle
  /\ PathIdle
  /\ pool \in [1..MaxValues -> InputValues]
  /\ durations = getDefaultDurations
  /\ given = -1

NextPath == trimmedOutputPath

NextButtons ==
  \/ SetDurations
  \/ Load

\* The run up to the point where the output file exists.
NextDuration == OpenInput

NextTrim ==
  \/ OpenInput
  \/ WriteHeader
  \/ FindKeyframe
  \/ CopyPacket
  \/ WriteTrailer

Init ==
  /\ TrimmerIdle
  /\ PathIdle
  /\ ButtonsIdle
  /\ active \in BOOLEAN
  /\ bufferLength \in BufferLengths
  /\ pendingSaveDuration = 0
  /\ armedLength = 0
  /\ saves = <<>>
  /\ completed = 0
  /\ mark = 0
  /\ lastReplay = NoPath
  /\ files = <<>>
  /\ jobs = <<>>
  /\ hpc = [h \in HostThreads |-> "idle"]
  /\ hdur = [h \in HostThreads |-> 0]
  /\ last = NoCall

Next ==
  \/ SetActive
  \/ ChangeBufferLength
  \/ SaveSegment
  \/ saveFullBuffer
  \/ ReplayBufferSaved
  \/ TrimOpen
  \/ TrimWriteHeader
  \/ TrimCopyPackets
  \/ TrimWriteTrailer
  \/ TrimUnlink

NextThreads ==
  \/ SetActive
  \/ ChangeBufferLength
  \/ SaveSegment
  \/ saveFullBuffer
  \/ RaiseSaved
  \/ HandlerRead
  \/ HandlerClear
  \/ HandlerDispatch
  \/ TrimOpen
  \/ TrimWriteHeader
  \/ TrimCopyPackets
  \/ TrimWriteTrailer
  \/ TrimUnlink

Spec == Init /\ [][Next]_vars
SpecThreads == Init /\ [][NextThreads]_vars
SpecTrim == InitTrim /\ [][NextTrim]_vars
SpecDuration == InitDuration /\ [][NextDuration]_vars
SpecPath == InitPath /\ [][NextPath]_vars
SpecButtons == InitButtons /\ [][NextButtons]_vars

\* ================================================================ claims

SegmentSaves == {i \in 1..Len(saves) : saves[i].kind = "segment"}

\* The save whose file a job works on.
SaveOf(job) == CHOOSE k \in 1..Len(saves) : HostPath(k) = job.path

OutputOf(job) == getTrimmedOutputPath(job.path)

\* The successful segment requests made since the latest announcement.
Armings == {i \in (mark + 1)..Len(saves) : saves[i].kind = "segment"}
LastArming == CHOOSE i \in Armings : \A k \in Armings : k <= i

\* The step is a whole run of handleReplayBufferSaved.
HandlerRuns == last'.op = "handleReplayBufferSaved"

\* C1: with the events handled on host threads, the number of trim jobs
\* dispatched never exceeds the number of successful saveSegment calls (of
\* two handler runs after one arming, only one dispatches).
C1_OneJobPerArming == Len(jobs) <= Cardinality(SegmentSaves)

\* C2: the file of a save that saveFullBuffer triggered is never handed to
\* a trim job, the events arriving one per save in the order of the saves.
C2_FullSaveNeverTrimmed ==
  \A j \in 1..Len(jobs) : saves[SaveOf(jobs[j])].kind # "full"

\* C3: a job's source file is on disk with the host's content as long as
\* the job has not succeeded: it is missing only once the trim returned
\* success, and after a failure at any step it is still there, unmodified.
C3_SourceKeptUnlessTrimmed ==
  \A j \in 1..Len(jobs) :
    LET job == jobs[j]
    IN /\ job.path \in DOMAIN files => files[job.path] = "replay"
       /\ job.path \notin DOMAIN files => job.result = "success"
       /\ job.result = "failure" => job.path \in DOMAIN files

\* A trim failed after it had created its output file; the source is kept.
C3_Witness ==
  \E j \in 1..Len(jobs) :
    /\ jobs[j].result = "failure"
    /\ OutputOf(jobs[j]) \in DOMAIN files
    /\ jobs[j].path \in DOMAIN files

\* C4: once a trim job has ended in failure there is no file at its output
\* path.
C4_NoSinkAfterFailedTrim ==
  \A j \in 1..Len(jobs) :
    jobs[j].result = "failure" => OutputOf(jobs[j]) \notin DOMAIN files

C6_InactiveRequestFails ==
  [][/\ last'.op \in {"saveSegment", "saveFullBuffer"} /\ ~active =>
          /\ ~last'.ret
          /\ saves' = saves
          /\ pendingSaveDuration' = pendingSaveDuration
     /\ HandlerRuns /\ pendingSaveDuration = 0 => jobs' = jobs]_vars

C6_Witness ==
  /\ last.op = "saveSegment" /\ ~last.ret /\ ~active
  /\ last.arg <= bufferLength
  /\ pendingSaveDuration = 0

\* C7: while the replay buffer is active, saveSegment(duration) with
\* duration above the current buffer length returns false, starts no save
\* and leaves the slot as it was.
C7_TooLongRequestFails ==
  [][last'.op = "saveSegment" /\ active /\ last'.arg > bufferLength =>
       /\ ~last'.ret
       /\ saves' = saves
       /\ pendingSaveDuration' = pendingSaveDuration]_vars

\* The refused request found the slot armed with another duration, which
\* is still there.
C7_Witness ==
  /\ last.op = "saveSegment" /\ ~last.ret /\ active
  /\ last.arg > bufferLength
  /\ pendingSaveDuration > 0 /\ pendingSaveDuration # last.arg

\* C8: an armed slot holds a duration that is at most the buffer length
\* its request read, and a job is dispatched only with the armed duration,
\* which is above 0 and at most that length; a job's duration never changes.
C8_ArmedWithinBuffer ==
  [][/\ pendingSaveDuration' > 0 => pendingSaveDuration' <= armedLength'
     /\ last'.op = "saveSegment" /\ last'.ret =>
          /\ pendingSaveDuration' = last'.arg
          /\ armedLength' = bufferLength
     /\ Len(jobs') >= Len(jobs)
     /\ \A j \in 1..Len(jobs') :
          IF j <= Len(jobs)
            THEN jobs'[j].duration = jobs[j].duration
            ELSE /\ jobs'[j].duration = pendingSaveDuration
                 /\ 0 < jobs'[j].duration
                 /\ jobs'[j].duration <= armedLength]_vars

\* A job was dispatched with a duration equal to the length read at its
\* request while the buffer had been shortened below it since.
C8_Witness ==
  /\ last.op = "handleReplayBufferSaved" /\ last.ret
  /\ jobs # <<>>
  /\ jobs[Len(jobs)].duration = last.arg
  /\ bufferLength < last.arg

\* C9: saveFullBuffer leaves the slot as it is and, when it returns true,
\* has started exactly one save; a handler run that finds the slot at 0
\* dispatches nothing, does not ask for the saved path and leaves the
\* slot at 0.
C9_FullSaveKeepsSlot ==
  [][/\ last'.op = "saveFullBuffer" =>
          /\ pendingSaveDuration' = pendingSaveDuration
          /\ last'.ret = active
          /\ saves' = IF last'.ret THEN Append(saves, FullSave) ELSE saves
     /\ HandlerRuns /\ pendingSaveDuration = 0 =>
          /\ jobs' = jobs
          /\ ~last'.queried
          /\ pendingSaveDuration' = 0]_vars

\* A successful saveFullBuffer made while the slot was armed.
C9_Witness ==
  /\ last.op = "saveFullBuffer" /\ last.ret
  /\ pendingSaveDuration > 0
  /\ saves[Len(saves)].kind = "full"

\* C10: a handler run that finds the slot armed leaves it at 0, with one
\* job dispatched when a path is returned and none when no path is.
C10_ConsumedOnce ==
  [][HandlerRuns /\ pendingSaveDuration > 0 =>
       /\ pendingSaveDuration' = 0
       /\ last'.arg = pendingSaveDuration
       /\ Len(jobs') = IF last'.ret THEN Len(jobs) + 1 ELSE Len(jobs)]_vars

\* The handler consumed an armed duration although no path came back.
C10_Witness ==
  /\ last.op = "handleReplayBufferSaved" /\ last.arg > 0 /\ ~last.ret
  /\ pendingSaveDuration = 0
  /\ jobs = <<>>
\* ------------------------------------------------- claims on the trimmer

Succeeded == run.pc = "returned" /\ run.result = "true"

\* The source packets the sink has been given.
Written == {sink[k].index : k \in {n \in 1..Len(sink) : sink[n].op = "packet"}}

\* C11: when durationSeconds >= totalDuration, a trim that succeeds has
\* written every packet of the source to the sink; none is discarded.
C11_NothingDiscarded ==
  (Succeeded /\ durationSeconds >= TotalDuration(source))
    => Written = 1..Len(source.packets)

\* max(0, totalDuration - durationSeconds), from the inputs.
CutTime == Seconds(Max(0, TotalDuration(source) - durationSeconds))

\* C12: when the scan has recorded a keyframe, the anchor is the time of a
\* key packet of the first video stream, and that time is at or before
\* cutTime.
C12_AnchorAtOrBeforeCut ==
  run.keyframeTime # AV_NOPTS_VALUE
    => /\ \E i \in 1..Len(source.packets) :
            /\ source.packets[i].stream_index = run.videoStreamIndex
            /\ source.packets[i].key
            /\ source.packets[i].pts = run.keyframeTime
       /\ run.effectiveStartTime =
            InSeconds(run.keyframeTime, source.time_base[run.videoStreamIndex])
       /\ LessEq(run.effectiveStartTime, CutTime)

\* C13: a trim that succeeds has written every source packet whose time is
\* at or after cutTime = max(0, T - D).
C13_RetainsFromCut ==
  Succeeded
    => \A i \in 1..Len(source.packets) :
         LessEq(CutTime, CopyTime(source, source.packets[i])) => i \in Written

\* The first packet the sink was given for stream s, 0 when it has none.
FirstWritten(s) ==
  LET on == {k \in 1..Len(sink) : sink[k].op = "packet" /\ sink[k].stream_index = s}
  IN IF on = {} THEN 0 ELSE CHOOSE k \in on : \A n \in on : k <= n

\* C14 as stated: the first packet written on a stream has rebased
\* presentation timestamp 0.
C14_FirstPtsZero ==
  \A s \in Streams : FirstWritten(s) # 0 => sink[FirstWritten(s)].pts = 0

\* C14 amended: the first packet written on a stream has rebased timestamp
\* 0, the timestamp being its pts when the source packet has one and its
\* dts when it has none (its pts then stays unset), whatever the other
\* streams' offsets are.
C14_FirstStampZero ==
  \A s \in Streams :
    FirstWritten(s) # 0
      => LET first == sink[FirstWritten(s)]
         IN IF source.packets[first.index].pts # AV_NOPTS_VALUE
              THEN first.pts = 0
              ELSE first.pts = AV_NOPTS_VALUE /\ first.dts = 0

\* Both streams have been written to, the second's first retained packet
\* lagging the first's.
C14_Witness ==
  /\ Succeeded
  /\ FirstWritten(0) # 0 /\ FirstWritten(1) # 0
  /\ Less(CopyTime(source, source.packets[sink[FirstWritten(0)].index]),
          CopyTime(source, source.packets[sink[FirstWritten(1)].index]))
  /\ run.firstPtsPerStream[1] > 0

\* C21: in every run of trimToLastSeconds the sink's header is written
\* before any packet, nothing is written after the trailer, and the run
\* returns true only when the trailer has been written.
C21_SinkProtocol ==
  /\ \A i \in 1..Len(sink) :
       /\ sink[i].op = "header" <=> i = 1
       /\ sink[i].op = "trailer" => i = Len(sink)
  /\ Succeeded => (Len(sink) > 0 /\ sink[Len(sink)].op = "trailer")
  /\ (run.pc = "returned" /\ run.result = "false")
       => \A i \in 1..Len(sink) : sink[i].op # "trailer"

\* A run that succeeded with packets between the header and the trailer.
C21_Witness ==
  /\ Succeeded
  /\ Len(sink) >= 3
  /\ sink[2].op = "packet"

\* C22: when trimToLastSeconds has returned, on whichever path, the input
\* context, the output context and the output file that were opened have
\* all been closed and released.
C22_ContainersClosed ==
  run.pc = "returned"
    => /\ run.inputCtx # "open"
       /\ run.outputCtx # "open"
       /\ run.pb # "open"

\* C23: once the input has been probed, the total duration is the
\* container's duration when that is known, otherwise the longest of the
\* streams' known durations; when that yields no positive duration the run
\* has returned false with no output context allocated, no output file
\* opened and nothing written.
C23_DurationOrFailure ==
  LET probed == /\ run.pc # "open"
                /\ run.failed \notin {"avformat_open_input", "avformat_find_stream_info"}
      known == {s \in Streams : /\ source.codec_type[s] # "none"
                                /\ source.stream_duration[s] # AV_NOPTS_VALUE}
      longest(d) ==
        /\ \E s \in known : d * source.time_base[s] = source.stream_duration[s]
        /\ \A s \in known : d * source.time_base[s] >= source.stream_duration[s]
      positive == IF source.duration # AV_NOPTS_VALUE
                    THEN source.duration > 0
                    ELSE \E s \in known : source.stream_duration[s] > 0
  IN probed
       => IF positive
            THEN IF source.duration # AV_NOPTS_VALUE
                   THEN run.totalDuration = source.duration
                   ELSE longest(run.totalDuration)
            ELSE /\ run.pc = "returned" /\ run.result = "false"
                 /\ run.outputCtx = "null" /\ run.pb = "null"
                 /\ sink = <<>>

\* Neither the container nor any stream knows its duration, and the run has
\* given up after the probe.
C23_Witness ==
  /\ source.duration = AV_NOPTS_VALUE
  /\ \A s \in Streams : source.stream_duration[s] = AV_NOPTS_VALUE
  /\ run.pc = "returned"
  /\ run.failed = "getVideoDuration"
  /\ run.inputCtx = "closed"

\* The scan, where one was due, is over.
Scanned ==
  \/ run.pc = "copy"
  \/ Succeeded
  \/ run.failed \in {"av_packet_alloc", "std::bad_alloc",
                     "av_interleaved_write_frame", "av_write_trailer"}

\* C24: when the scan of the first video stream has ended without coming
\* upon a key packet, the anchor of the copy loop is exactly cutTime; when
\* the source has no video stream no scan has run, and the anchor is
\* exactly cutTime.
C24_FallbackToCutTime ==
  Scanned
    => /\ ~run.seenKey => run.effectiveStartTime = CutTime
       /\ (\A s \in Streams : source.codec_type[s] # "video")
            => /\ ~run.seenKey
               /\ run.keyframeTime = AV_NOPTS_VALUE
               /\ run.effectiveStartTime = CutTime

\* The scan of a video stream has ended, past the start of the file,
\* without a key packet.
C24_Witness ==
  /\ run.pc = "copy"
  /\ run.videoStreamIndex >= 0
  /\ ~run.seenKey
  /\ run.startTime > 0

\* C25: a turn of the copy loop hands the packet it has read to the sink
\* if and only if the packet's time, its pts (its dts when it has no pts) in
\* its own stream's time base, is at or after the anchor; the anchor is the
\* same for every stream and does not change during the loop.  A packet at
\* or after the anchor whose write fails ends the run.
C25_SkipRule ==
  [][(run.pc = "copy" /\ run.position <= Len(source.packets))
       => LET packet == source.packets[run.position]
              time == InSeconds(StampOf(packet), source.time_base[packet.stream_index])
              written == /\ sink' = Append(sink, sink'[Len(sink')])
                         /\ sink'[Len(sink')].op = "packet"
                         /\ sink'[Len(sink')].index = run.position
          IN /\ run'.effectiveStartTime = run.effectiveStartTime
             /\ IF LessEq(run.effectiveStartTime, time)
                  THEN written \/ (sink' = sink /\ run'.failed = "av_interleaved_write_frame")
                  ELSE sink' = sink /\ run'.pc = "copy"]_vars

\* The seek has landed on a key packet before the anchor, and the copy loop
\* has skipped that packet and written a later one.
C25_Witness ==
  /\ Succeeded
  /\ \E i, k \in 1..Len(source.packets) :
       /\ i < k
       /\ LessEq(run.floor, TimeOf(source, i))
       /\ Less(CopyTime(source, source.packets[i]), run.effectiveStartTime)
       /\ i \notin Written
       /\ k \in Written
       /\ \E n \in 1..Len(source.packets) :
            source.packets[n].key /\ TimeOf(source, n) = run.floor

\* C26: a stream's offset, once set, never changes; it is the rescaled
\* timestamp of the first packet of that stream handed to the sink; and
\* every packet written on a stream has its pts and its dts, where the
\* source packet has them, equal to the source value rescaled from the
\* input stream's to the output stream's time base, minus the offset of
\* that same stream.
C26_OffsetPerStream ==
  [][/\ \A s \in Streams :
          run.firstPtsPerStream[s] # AV_NOPTS_VALUE
            => run'.firstPtsPerStream[s] = run.firstPtsPerStream[s]
     /\ \A k \in 1..Len(sink') :
          sink'[k].op = "packet"
            => LET s == sink'[k].stream_index
                   packet == source.packets[sink'[k].index]
                   on == {n \in 1..Len(sink') :
                            sink'[n].op = "packet" /\ sink'[n].stream_index = s}
                   first == source.packets[
                              sink'[CHOOSE n \in on : \A m \in on : n <= m].index]
                   offset == run'.firstPtsPerStream[s]
                   rescaled(stamp) ==
                     av_rescale_q(stamp, source.time_base[s], run'.time_base[s])
               IN /\ packet.stream_index = s
                  /\ offset = rescaled(StampOf(first))
                  /\ IF packet.pts # AV_NOPTS_VALUE
                       THEN sink'[k].pts = rescaled(packet.pts) - offset
                       ELSE sink'[k].pts = AV_NOPTS_VALUE
                  /\ sink'[k].dts = rescaled(packet.dts) - offset]_vars

\* Two packets of one stream have been written, the first not at the
\* stream's origin and in a finer output time base.
C26_Witness ==
  /\ Succeeded
  /\ \E k, n \in 1..Len(sink) :
       /\ k < n
       /\ sink[k].op = "packet" /\ sink[n].op = "packet"
       /\ sink[k].stream_index = sink[n].stream_index
       /\ run.firstPtsPerStream[sink[k].stream_index] > 0
       /\ sink[n].pts > 0
       /\ run.time_base[sink[k].stream_index] # source.time_base[sink[k].stream_index]

\* C29: every packet written to the sink that has a presentation timestamp
\* has a rebased presentation timestamp that is not negative, in whatever
\* order the retained packets of its stream arrive.
C29_PtsNotNegative ==
  \A k \in 1..Len(sink) :
    (sink[k].op = "packet" /\ sink[k].pts # AV_NOPTS_VALUE) => sink[k].pts >= 0

\* --------------------------------------------- claims on the output path

\* The path the claim describes: the suffix goes before the last dot of the
\* file name, the part after the last separator, and at the end when the
\* file name has no dot.
SuffixBeforeExtension(path) ==
  LET slashes == {i \in 1..Len(path) : path[i] = "/"}
      slash == IF slashes = {} THEN 0 ELSE CHOOSE i \in slashes : \A k \in slashes : k <= i
      dots == {i \in (slash + 1)..Len(path) : path[i] = "."}
      dot == CHOOSE i \in dots : \A k \in dots : k <= i
  IN IF dots = {}
       THEN path \o Suffix
       ELSE SubSeq(path, 1, dot - 1) \o Suffix \o SubSeq(path, dot, Len(path))

\* C15: the output path is the source path with "_trimmed" put before the
\* final extension of the file name, and at the end when the file name has
\* no extension, also when only a directory of the path has a dot.
C15_SuffixBeforeExtension ==
  outputPath # NoPath => outputPath = SuffixBeforeExtension(givenPath)

\* ------------------------------------------- claims on handler and jobs

\* C16: a run of handleReplayBufferSaved advances no trim job and leaves the
\* job it dispatches at its first step: the handler returns without waiting
\* for any of the job's work.
C16_HandlerNeverWaits ==
  [][HandlerRuns =>
       /\ \A j \in 1..Len(jobs) : jobs'[j] = jobs[j]
       /\ \A j \in (Len(jobs) + 1)..Len(jobs') : jobs'[j].pc = "open"]_vars

\* A handler run has just dispatched a second job while the first job is in
\* the middle of its trim.
C16_Witness ==
  /\ last.op = "handleReplayBufferSaved" /\ last.ret
  /\ Len(jobs) = 2
  /\ jobs[1].result = "running" /\ jobs[1].pc \in {"header", "packets", "trailer"}
  /\ jobs[2].pc = "open"

\* C17: no two trim jobs that are running at the same time have the same
\* source path or the same output path.
C17_DistinctFilePairs ==
  \A i, j \in 1..Len(jobs) :
    (i # j /\ Running(i) /\ Running(j))
      => jobs[i].path # jobs[j].path /\ OutputOf(jobs[i]) # OutputOf(jobs[j])

\* C18: once a trim job has succeeded, the file the host saved is gone and
\* the trimmed file, complete, is what is left of that save.
C18_TrimmedReplacesOriginal ==
  \A j \in 1..Len(jobs) :
    jobs[j].result = "success"
      => /\ jobs[j].path \notin DOMAIN files
         /\ OutputOf(jobs[j]) \in DOMAIN files
         /\ files[OutputOf(jobs[j])] = "trimmed"

C18_Witness == \E j \in 1..Len(jobs) : jobs[j].result = "success"

\* C19: a trim job that fails raises no message box.
C19_NoAlertOnFailure ==
  \A j \in 1..Len(jobs) : jobs[j].result = "failure" => ~jobs[j].alert

\* A step of trim job j.
WorkerStep(j) == j \in 1..Len(jobs) /\ jobs'[j] # jobs[j]

\* C27: the job a handler run dispatches carries the path the host supplied
\* to that run, as it was when the run copied it, and the duration the run
\* read; a job's path and duration never change afterwards, whatever the
\* host's last replay and the pending slot become; and a step of a job
\* writes neither of these and touches no file but its own source and the
\* output named after it.
C27_WorkerOwnsItsCopy ==
  [][/\ \A j \in 1..Len(jobs) :
          /\ jobs'[j].path = jobs[j].path
          /\ jobs'[j].duration = jobs[j].duration
     /\ \A j \in (Len(jobs) + 1)..Len(jobs') :
          /\ jobs'[j].path = lastReplay'
          /\ jobs'[j].duration = pendingSaveDuration
     /\ \A j \in 1..Len(jobs) :
          WorkerStep(j)
            => /\ lastReplay' = lastReplay
               /\ pendingSaveDuration' = pendingSaveDuration
               /\ \A p \in DOMAIN files \cup DOMAIN files' :
                    (\/ p \notin DOMAIN files
                     \/ p \notin DOMAIN files'
                     \/ files'[p] # files[p])
                      => p \in {jobs[j].path, getTrimmedOutputPath(jobs[j].path)}]_vars

\* A job is at work on its own path while the host's last replay is
\* already another file and the slot no longer holds the job's duration.
C27_Witness ==
  /\ Len(jobs) >= 1
  /\ jobs[1].result = "running"
  /\ jobs[1].pc \in {"header", "packets", "trailer", "unlink"}
  /\ jobs[1].path = HostPath(1)
  /\ lastReplay = HostPath(2)
  /\ pendingSaveDuration # jobs[1].duration

\* C28: a successful saveSegment(D') made while a handler is between its
\* reading and its clearing of the slot is not undone by that handler: once
\* the handler has cleared, the slot still holds D'.
C28_ArmingSurvivesCompletion ==
  [][\A h \in HostThreads :
       (/\ hpc[h] = "clear" /\ hpc'[h] = "path"
        /\ last.op = "saveSegment" /\ last.ret)
         => pendingSaveDuration' = last.arg]_vars

\* ------------------------------------------ claims on SaveButtonSettings

\* C20: whatever setDurations and load were handed, getDurations() has
\* SAVE_BUTTON_COUNT entries, each from 1 to MAX_BUFFER_LENGTH, and every
\* position the latest input did not reach holds its default.
C20_DurationsNormalized ==
  /\ DOMAIN getDurations = 1..SAVE_BUTTON_COUNT
  /\ \A i \in DOMAIN getDurations :
       getDurations[i] >= 1 /\ getDurations[i] <= MAX_BUFFER_LENGTH
  /\ given >= 0
       => \A i \in (given + 1)..SAVE_BUTTON_COUNT : getDurations[i] = SAVE_BUTTONS[i]

\* An input shorter than the buttons, with a value above the range first.
C20_Witness ==
  /\ given \in 1..(SAVE_BUTTON_COUNT - 1)
  /\ pool[1] > MAX_BUFFER_LENGTH
  /\ getDurations[1] = MAX_BUFFER_LENGTH

====
